---- MODULE Spec2Model ----
(***************************************************************************)
(* Model of the vanity-address generator: src/src/vanity.rs (the search    *)
(* engine, the pattern predicate, the validator) and src/src/main.rs (the  *)
(* order validation -> search).                                            *)
(*                                                                         *)
(* Strings are sequences of one-character strings.  Time is a discrete     *)
(* clock `now` that starts at 0 when the search is invoked.                *)
(***************************************************************************)
EXTENDS Integers, Sequences, FiniteSets, TLC

(***************************************************************************)
(* Bounds of the model.                                                    *)
(***************************************************************************)
\* largest --count drawn
MaxCount == 2
\* largest --threads drawn (0 means "use num_cpus")
MaxThreads == 2
\* largest number of cores (= executor threads of the tokio runtime) drawn
MaxCpus == 2
\* largest --max-attempts drawn
MaxAttemptsArg == 1
\* largest --max-time drawn, in clock units
MaxTimeArg == 0
\* the clock stops ticking here
MaxNow == 1
\* a worker draws a non-matching keypair only while it has drawn fewer than
\* this many keypairs
MaxGen == 3
\* longest pattern given to the validator
MaxPatLen == 3
\* longest candidate and longest pattern given to the match predicate
MaxStrLen == 3
\* longest of the short pattern lengths given to the estimates
MaxEstLen == 13
\* a pattern length beyond the range of powf
LongLen == 175
\* the durations formatted include every whole second up to this one
MaxSecs == 130
\* The period of a loop that yields.  The only yield of the source is in
\* generate_single, every 10000 attempts (vanity.rs:80); the model scales it.
YieldEvery == 2
\* length of a modelled public key
KeyLen == 2
\* The batch of the periodic flush.  The source flushes every 1000 attempts
\* (vanity.rs:170-171); the model runs the same protocol with a batch small
\* enough that a worker completes several batches within the explored runs.
BatchSize == 2

(***************************************************************************)
(* Characters.                                                             *)
(***************************************************************************)
UpperLetters ==
  << "A","B","C","D","E","F","G","H","I","J","K","L","M",
     "N","O","P","Q","R","S","T","U","V","W","X","Y","Z" >>

LowerLetters ==
  << "a","b","c","d","e","f","g","h","i","j","k","l","m",
     "n","o","p","q","r","s","t","u","v","w","x","y","z" >>

\* char::to_lowercase on the characters of the model (ASCII)
to_lowercase_char(c) ==
  IF \E i \in 1..26 : UpperLetters[i] = c
    THEN LowerLetters[CHOOSE i \in 1..26 : UpperLetters[i] = c]
    ELSE c

\* str::to_lowercase
to_lowercase(s) == [i \in 1..Len(s) |-> to_lowercase_char(s[i])]

\* get_valid_base58_chars: "123456789ABCDEFGHJKLMNPQRSTUVWXYZabcdefghijkmnopqrstuvwxyz"
get_valid_base58_chars ==
  << "1","2","3","4","5","6","7","8","9",
     "A","B","C","D","E","F","G","H","J","K","L","M","N","P","Q","R","S","T",
     "U","V","W","X","Y","Z",
     "a","b","c","d","e","f","g","h","i","j","k","m","n","o","p","q","r","s",
     "t","u","v","w","x","y","z" >>

Base58Set == { get_valid_base58_chars[i] : i \in 1..Len(get_valid_base58_chars) }

\* let invalid_chars = ['0', 'O', 'I', 'l'];
invalid_chars == << "0", "O", "I", "l" >>

InvalidCharSet == { invalid_chars[i] : i \in 1..Len(invalid_chars) }

(***************************************************************************)
(* Pattern validation.                                                     *)
(***************************************************************************)
\* only the first offending character is reported
found_invalid_FirstOnly(p) ==
  IF \E i \in 1..Len(p) : p[i] \in InvalidCharSet
    THEN << p[CHOOSE i \in 1..Len(p) :
                /\ p[i] \in InvalidCharSet
                /\ \A j \in 1..(i - 1) : p[j] \notin InvalidCharSet] >>
    ELSE << >>

\* pattern.chars().filter(|c| invalid_chars.contains(c)).collect()
RECURSIVE found_invalid(_)
found_invalid(p) ==
  IF p = << >> THEN << >>
  ELSE IF Head(p) \in InvalidCharSet
         THEN << Head(p) >> \o found_invalid(Tail(p))
         ELSE found_invalid(Tail(p))

\* validate_base58_pattern: Ok(()) when nothing was filtered out, else Err(found)
validate_base58_pattern(p) ==
  IF found_invalid(p) = << >>
    THEN [ok |-> TRUE, err |-> << >>]
    ELSE [ok |-> FALSE, err |-> found_invalid(p)]

\* is_valid_base58_pattern
is_valid_base58_pattern(p) == ~ \E i \in 1..Len(p) : p[i] \in InvalidCharSet

(***************************************************************************)
(* The match predicate.                                                    *)
(***************************************************************************)
\* str::starts_with
starts_with(key, pat) ==
  /\ Len(pat) <= Len(key)
  /\ SubSeq(key, 1, Len(pat)) = pat

\* str::ends_with
ends_with(key, pat) ==
  /\ Len(pat) <= Len(key)
  /\ SubSeq(key, Len(key) - Len(pat) + 1, Len(key)) = pat

\* str::contains
contains(key, pat) ==
  \E i \in 0..(Len(key) - Len(pat)) : SubSeq(key, i + 1, i + Len(pat)) = pat

PatternTypes == { "StartsWith", "EndsWith", "Contains" }

\* the suffix mode tests the prefix
matches_pattern_static_SuffixAsPrefix(public_key, pattern, pattern_type, case_sensitive) ==
  LET key == IF case_sensitive THEN public_key ELSE to_lowercase(public_key)
      pat == IF case_sensitive THEN pattern ELSE to_lowercase(pattern)
  IN CASE pattern_type = "StartsWith" -> starts_with(key, pat)
       [] pattern_type = "EndsWith"   -> starts_with(key, pat)
       [] pattern_type = "Contains"   -> contains(key, pat)

\* only the candidate is lowercased
matches_pattern_static_KeyOnlyLowered(public_key, pattern, pattern_type, case_sensitive) ==
  LET key == IF case_sensitive THEN public_key ELSE to_lowercase(public_key)
      pat == pattern
  IN CASE pattern_type = "StartsWith" -> starts_with(key, pat)
       [] pattern_type = "EndsWith"   -> ends_with(key, pat)
       [] pattern_type = "Contains"   -> contains(key, pat)

matches_pattern_static(public_key, pattern, pattern_type, case_sensitive) ==
  LET key == IF case_sensitive THEN public_key ELSE to_lowercase(public_key)
      pat == IF case_sensitive THEN pattern ELSE to_lowercase(pattern)
  IN CASE pattern_type = "StartsWith" -> starts_with(key, pat)
       [] pattern_type = "EndsWith"   -> ends_with(key, pat)
       [] pattern_type = "Contains"   -> contains(key, pat)

(***************************************************************************)
(* Inputs of a run.                                                        *)
(***************************************************************************)
\* characters of the modelled public keys (a part of the base-58 alphabet)
KeyChars == { "a", "B" }

\* Keypair::new().pubkey().to_string(): any key may come out
Keys == [1..KeyLen -> KeyChars]

\* the --pattern, --pattern-type and --case-sensitive of the runs explored
CliOptions ==
  { << << "a" >>, "StartsWith", TRUE >>,
    << << "b" >>, "EndsWith", FALSE >>,
    << << "B", "a" >>, "Contains", TRUE >>,
    << << "!" >>, "StartsWith", FALSE >>,
    << << "O" >>, "StartsWith", TRUE >>,
    << << "a", "0", "l", "0" >>, "Contains", FALSE >> }

\* no pure function is being called
NoCall == [fn |-> "none"]

NoResult == [public_key |-> << >>, attempts |-> 0, time_elapsed |-> 0]

VARIABLES
  mainpc,          \* main: "validate", "rejected", "start", "joining", "ok", "err"
  pattern,         \* options.pattern
  pattern_type,    \* options.pattern_type
  case_sensitive,  \* options.case_sensitive
  count,           \* cli.count
  thread_count,    \* thread_count of main (cli.threads, or num_cpus when 0)
  num_cpus,        \* cores = threads of the runtime that run the spawned tasks
  max_attempts,    \* options.max_attempts
  max_time,        \* options.max_time
  now,             \* the clock (Instant::now()), 0 when the search is invoked
  results,         \* Mutex<Vec<VanityResult>>
  lock,            \* holder of the results mutex, 0 when free
  stop_flag,       \* AtomicBool
  total_attempts,  \* AtomicU64
  pc,              \* position of each worker task
  local_attempts,  \* local_attempts of each worker
  start_time,      \* start_time of each worker
  cand,            \* the VanityResult a worker is about to register
  generated,       \* keypairs generated by each worker since it started (history)
  overshoot,       \* those of them generated with the collection already full (history)
  joined,          \* handles the coordinator has awaited
  ret,             \* the returned (final_results, final_total_attempts)
  call             \* a single call of one of the pure functions: input and output

vars == << mainpc, pattern, pattern_type, case_sensitive, count, thread_count,
           num_cpus, max_attempts, max_time, now, results, lock, stop_flag,
           total_attempts, pc, local_attempts, start_time, cand, generated,
           overshoot, joined, ret, call >>

options == << pattern, pattern_type, case_sensitive, max_attempts, max_time >>
config == << options, count, thread_count, num_cpus >>

Workers == 1..thread_count

\* tasks that occupy a thread of the runtime: the loop has no .await, so a
\* task keeps its thread from its first poll until it returns or panics
Running == { w \in Workers : pc[w] \notin { "idle", "queued", "done", "panicked" } }

\* The spawned tasks run while the coordinator awaits them, and on after a
\* failed await: the tasks are detached, and the runtime that is dropped when
\* main returns lets a task that never yields run until it returns.
TasksRun == mainpc \in { "joining", "err" }

\* main.rs:87-91
ThreadCountOf(threads, cpus) == IF threads = 0 THEN cpus ELSE threads

Init ==
  /\ mainpc = "validate"
  /\ \E o \in CliOptions :
       /\ pattern = o[1]
       /\ pattern_type = o[2]
       /\ case_sensitive = o[3]
  /\ count \in 0..MaxCount
  /\ num_cpus \in 1..MaxCpus
  /\ \E threads \in 0..MaxThreads : thread_count = ThreadCountOf(threads, num_cpus)
  /\ max_attempts \in 1..MaxAttemptsArg
  /\ max_time \in 0..MaxTimeArg
  /\ now = 0
  /\ results = << >>
  /\ lock = 0
  /\ stop_flag = FALSE
  /\ total_attempts = 0
  /\ pc = [w \in Workers |-> "idle"]
  /\ local_attempts = [w \in Workers |-> 0]
  /\ start_time = [w \in Workers |-> 0]
  /\ cand = [w \in Workers |-> NoResult]
  /\ generated = [w \in Workers |-> 0]
  /\ overshoot = [w \in Workers |-> 0]
  /\ joined = 0
  /\ ret = [results |-> << >>, total |-> 0]
  /\ call = NoCall

(***************************************************************************)
(* main                                                                    *)
(***************************************************************************)
\* the verdict of the validation is not consulted
Validate_Unchecked ==
  /\ mainpc = "validate"
  /\ mainpc' = "start"
  /\ UNCHANGED << config, call, now, results, lock, stop_flag, total_attempts, pc,
                  local_attempts, start_time, cand, generated, overshoot, joined, ret >>

\* main.rs:61-84: validation, process::exit(1) on Err
Validate ==
  /\ mainpc = "validate"
  /\ mainpc' = IF validate_base58_pattern(pattern).ok THEN "start" ELSE "rejected"
  /\ UNCHANGED << config, call, now, results, lock, stop_flag, total_attempts, pc,
                  local_attempts, start_time, cand, generated, overshoot, joined, ret >>

\* vanity.rs:95-97, 109-186: the shared state is created and the tasks spawned
SpawnWorkers ==
  /\ mainpc = "start"
  /\ mainpc' = "joining"
  /\ results' = << >>
  /\ stop_flag' = FALSE
  /\ total_attempts' = 0
  /\ pc' = [w \in Workers |-> "queued"]
  /\ joined' = 0
  /\ UNCHANGED << config, call, now, lock, local_attempts, start_time, cand,
                  generated, overshoot, ret >>

\* a JoinError is ignored: a panicked task counts as finished
JoinNext_IgnoresPanic ==
  /\ mainpc = "joining"
  /\ joined < thread_count
  /\ pc[joined + 1] \in { "done", "panicked" }
  /\ joined' = joined + 1
  /\ UNCHANGED << mainpc, config, call, now, results, lock, stop_flag, total_attempts,
                  pc, local_attempts, start_time, cand, generated, overshoot, ret >>

\* vanity.rs:189-191: handle.await? on the next handle, in spawn order
JoinNext ==
  /\ mainpc = "joining"
  /\ joined < thread_count
  /\ pc[joined + 1] \in { "done", "panicked" }
  /\ IF pc[joined + 1] = "done"
       THEN /\ joined' = joined + 1
            /\ mainpc' = mainpc
       ELSE /\ joined' = joined
            /\ mainpc' = "err"
  /\ UNCHANGED << config, call, now, results, lock, stop_flag, total_attempts, pc,
                  local_attempts, start_time, cand, generated, overshoot, ret >>

\* an under-full result set is reported as a failure
ReturnOk_UnderfillFails ==
  /\ mainpc = "joining"
  /\ joined = thread_count
  /\ lock = 0
  /\ ret' = [results |-> results, total |-> total_attempts]
  /\ mainpc' = IF Len(results) < count THEN "err" ELSE "ok"
  /\ UNCHANGED << config, call, now, results, lock, stop_flag, total_attempts, pc,
                  local_attempts, start_time, cand, generated, overshoot, joined >>

\* vanity.rs:195-197
ReturnOk ==
  /\ mainpc = "joining"
  /\ joined = thread_count
  /\ lock = 0
  /\ ret' = [results |-> results, total |-> total_attempts]
  /\ mainpc' = "ok"
  /\ UNCHANGED << config, call, now, results, lock, stop_flag, total_attempts, pc,
                  local_attempts, start_time, cand, generated, overshoot, joined >>

\* a spawned task that an idle thread of the runtime can pick up
Startable(w) == pc[w] = "queued" /\ Cardinality(Running) < num_cpus

\* The clock advances while the search runs.  An idle runtime thread picks a
\* spawned task up at once on the scale of the clock, so a task is first
\* polled late only when every runtime thread is occupied.
Tick ==
  /\ TasksRun
  /\ now < MaxNow
  /\ ~ \E w \in Workers : Startable(w)
  /\ now' = now + 1
  /\ UNCHANGED << mainpc, config, call, results, lock, stop_flag, total_attempts, pc,
                  local_attempts, start_time, cand, generated, overshoot, joined, ret >>

(***************************************************************************)
(* A worker task (vanity.rs:117-184)                                       *)
(***************************************************************************)
\* vanity.rs:117-119: the runtime polls the task for the first time
StartWorker(w) ==
  /\ TasksRun
  /\ Startable(w)
  /\ local_attempts' = [local_attempts EXCEPT ![w] = 0]
  /\ start_time' = [start_time EXCEPT ![w] = now]
  /\ pc' = [pc EXCEPT ![w] = "checkStop"]
  /\ UNCHANGED << mainpc, config, call, now, results, lock, stop_flag, total_attempts,
                  cand, generated, overshoot, joined, ret >>

\* vanity.rs:123-125
CheckStop(w) ==
  /\ TasksRun
  /\ pc[w] = "checkStop"
  /\ pc' = [pc EXCEPT ![w] = IF stop_flag THEN "exit" ELSE "checkTime"]
  /\ UNCHANGED << mainpc, config, call, now, results, lock, stop_flag, total_attempts,
                  local_attempts, start_time, cand, generated, overshoot, joined, ret >>

\* start_time.elapsed() > options.max_time
DeadlinePassed(w) == now - start_time[w] > max_time

\* a worker that leaves on its deadline sets the stop flag
CheckTime_StopsAll(w) ==
  /\ TasksRun
  /\ pc[w] = "checkTime"
  /\ pc' = [pc EXCEPT ![w] = IF DeadlinePassed(w) THEN "exit" ELSE "checkLen"]
  /\ stop_flag' = (stop_flag \/ DeadlinePassed(w))
  /\ UNCHANGED << mainpc, config, call, now, results, lock, total_attempts,
                  local_attempts, start_time, cand, generated, overshoot, joined, ret >>

\* vanity.rs:128-130
CheckTime(w) ==
  /\ TasksRun
  /\ pc[w] = "checkTime"
  /\ pc' = [pc EXCEPT ![w] = IF DeadlinePassed(w) THEN "exit" ELSE "checkLen"]
  /\ UNCHANGED << mainpc, config, call, now, results, lock, stop_flag, total_attempts,
                  local_attempts, start_time, cand, generated, overshoot, joined, ret >>

\* the length check never finds the collection full
CheckLen_NeverFull(w) ==
  /\ TasksRun
  /\ pc[w] = "checkLen"
  /\ lock = 0
  /\ pc' = [pc EXCEPT ![w] = "generate"]
  /\ UNCHANGED << mainpc, config, call, now, results, lock, stop_flag, total_attempts,
                  local_attempts, start_time, cand, generated, overshoot, joined, ret >>

\* vanity.rs:133-138: the guard is taken, the length read, the guard dropped
CheckLen(w) ==
  /\ TasksRun
  /\ pc[w] = "checkLen"
  /\ lock = 0
  /\ pc' = [pc EXCEPT ![w] = IF Len(results) >= count THEN "exit" ELSE "generate"]
  /\ UNCHANGED << mainpc, config, call, now, results, lock, stop_flag, total_attempts,
                  local_attempts, start_time, cand, generated, overshoot, joined, ret >>

\* vanity.rs:148-153
NewResult(w, key, attempts) ==
  [public_key |-> key, attempts |-> attempts, time_elapsed |-> now - start_time[w]]

\* 1 when a keypair is generated with the collection already at the count
Overshot == IF Len(results) >= count THEN 1 ELSE 0

\* every generated key is registered, the predicate is not consulted
Generate_Untested(w) ==
  /\ TasksRun
  /\ pc[w] = "generate"
  /\ \E key \in Keys :
       /\ local_attempts' = [local_attempts EXCEPT ![w] = @ + 1]
       /\ generated' = [generated EXCEPT ![w] = @ + 1]
       /\ overshoot' = [overshoot EXCEPT ![w] = @ + Overshot]
       /\ cand' = [cand EXCEPT ![w] = NewResult(w, key, local_attempts[w] + 1)]
       /\ pc' = [pc EXCEPT ![w] = "lockPush"]
  /\ UNCHANGED << mainpc, config, call, now, results, lock, stop_flag, total_attempts,
                  start_time, joined, ret >>

\* vanity.rs:140-153: one attempt; the keypair source returns any key
Generate(w) ==
  /\ TasksRun
  /\ pc[w] = "generate"
  /\ \E key \in Keys :
       LET hit == matches_pattern_static(key, pattern, pattern_type, case_sensitive)
       IN /\ hit \/ generated[w] < MaxGen
          /\ local_attempts' = [local_attempts EXCEPT ![w] = @ + 1]
          /\ generated' = [generated EXCEPT ![w] = @ + 1]
          /\ overshoot' = [overshoot EXCEPT ![w] = @ + Overshot]
          /\ cand' = [cand EXCEPT ![w] =
                        IF hit THEN NewResult(w, key, local_attempts[w] + 1)
                               ELSE NoResult]
          /\ pc' = [pc EXCEPT ![w] = IF hit THEN "lockPush" ELSE "flush"]
  /\ UNCHANGED << mainpc, config, call, now, results, lock, stop_flag, total_attempts,
                  start_time, joined, ret >>

\* vanity.rs:140-143: the keypair source fails and the task panics
GeneratePanics(w) ==
  /\ TasksRun
  /\ pc[w] = "generate"
  /\ local_attempts' = [local_attempts EXCEPT ![w] = @ + 1]
  /\ pc' = [pc EXCEPT ![w] = "panicked"]
  /\ UNCHANGED << mainpc, config, call, now, results, lock, stop_flag, total_attempts,
                  start_time, cand, generated, overshoot, joined, ret >>

\* vanity.rs:157: results.lock()
LockResults(w) ==
  /\ TasksRun
  /\ pc[w] = "lockPush"
  /\ lock = 0
  /\ lock' = w
  /\ pc' = [pc EXCEPT ![w] = "push"]
  /\ UNCHANGED << mainpc, config, call, now, results, stop_flag, total_attempts,
                  local_attempts, start_time, cand, generated, overshoot, joined, ret >>

\* the insertion guard left out
HasRoom_Always == TRUE

\* the insertion guard admits one result too many
HasRoom_OneTooMany == Len(results) <= count

\* if results_guard.len() < count (vanity.rs:158)
HasRoom == Len(results) < count

\* vanity.rs:158-162: the insertion guard and the push
Push(w) ==
  /\ TasksRun
  /\ pc[w] = "push"
  /\ lock = w
  /\ IF HasRoom
       THEN /\ results' = Append(results, cand[w])
            /\ pc' = [pc EXCEPT ![w] =
                        IF Len(results) + 1 >= count THEN "storeStop" ELSE "unlock"]
       ELSE /\ results' = results
            /\ pc' = [pc EXCEPT ![w] = "unlock"]
  /\ cand' = [cand EXCEPT ![w] = NoResult]
  /\ UNCHANGED << mainpc, config, call, now, lock, stop_flag, total_attempts,
                  local_attempts, start_time, generated, overshoot, joined, ret >>

\* the store left out
StoreStop_Skipped(w) ==
  /\ TasksRun
  /\ pc[w] = "storeStop"
  /\ lock = w
  /\ pc' = [pc EXCEPT ![w] = "unlock"]
  /\ UNCHANGED << mainpc, config, call, now, results, lock, stop_flag, total_attempts,
                  local_attempts, start_time, cand, generated, overshoot, joined, ret >>

\* vanity.rs:163
StoreStop(w) ==
  /\ TasksRun
  /\ pc[w] = "storeStop"
  /\ lock = w
  /\ stop_flag' = TRUE
  /\ pc' = [pc EXCEPT ![w] = "unlock"]
  /\ UNCHANGED << mainpc, config, call, now, results, lock, total_attempts,
                  local_attempts, start_time, cand, generated, overshoot, joined, ret >>

\* vanity.rs:166: the guard is dropped
Unlock(w) ==
  /\ TasksRun
  /\ pc[w] = "unlock"
  /\ lock = w
  /\ lock' = 0
  /\ pc' = [pc EXCEPT ![w] = "flush"]
  /\ UNCHANGED << mainpc, config, call, now, results, stop_flag, total_attempts,
                  local_attempts, start_time, cand, generated, overshoot, joined, ret >>

\* the batch is added to the shared total but the local counter is kept
Flush_KeepsLocal(w) ==
  /\ TasksRun
  /\ pc[w] = "flush"
  /\ total_attempts' = IF local_attempts[w] % BatchSize = 0
                         THEN total_attempts + BatchSize ELSE total_attempts
  /\ pc' = [pc EXCEPT ![w] = "checkStop"]
  /\ UNCHANGED << mainpc, config, call, now, results, lock, stop_flag, local_attempts,
                  start_time, cand, generated, overshoot, joined, ret >>

\* the full batch is cleared without being added to the shared total
Flush_LosesBatch(w) ==
  /\ TasksRun
  /\ pc[w] = "flush"
  /\ local_attempts' = [local_attempts EXCEPT ![w] = IF @ % BatchSize = 0 THEN 0 ELSE @]
  /\ pc' = [pc EXCEPT ![w] = "checkStop"]
  /\ UNCHANGED << mainpc, config, call, now, results, lock, stop_flag, total_attempts,
                  start_time, cand, generated, overshoot, joined, ret >>

\* if local_attempts % 1000 == 0 (vanity.rs:170)
BatchFull(n) == n % BatchSize = 0

\* vanity.rs:170-179
Flush(w) ==
  /\ TasksRun
  /\ pc[w] = "flush"
  /\ IF BatchFull(local_attempts[w])
       THEN /\ total_attempts' = total_attempts + BatchSize
            /\ local_attempts' = [local_attempts EXCEPT ![w] = 0]
       ELSE UNCHANGED << total_attempts, local_attempts >>
  /\ pc' = [pc EXCEPT ![w] = "checkStop"]
  /\ UNCHANGED << mainpc, config, call, now, results, lock, stop_flag, start_time,
                  cand, generated, overshoot, joined, ret >>

\* the task returns without adding its remaining attempts
ExitFlush_Dropped(w) ==
  /\ TasksRun
  /\ pc[w] = "exit"
  /\ pc' = [pc EXCEPT ![w] = "done"]
  /\ UNCHANGED << mainpc, config, call, now, results, lock, stop_flag, total_attempts,
                  local_attempts, start_time, cand, generated, overshoot, joined, ret >>

\* vanity.rs:183: the remaining attempts are added and the task returns
ExitFlush(w) ==
  /\ TasksRun
  /\ pc[w] = "exit"
  /\ total_attempts' = total_attempts + local_attempts[w]
  /\ pc' = [pc EXCEPT ![w] = "done"]
  /\ UNCHANGED << mainpc, config, call, now, results, lock, stop_flag, local_attempts,
                  start_time, cand, generated, overshoot, joined, ret >>

Next ==
  \/ Validate
  \/ SpawnWorkers
  \/ JoinNext
  \/ ReturnOk
  \/ Tick
  \/ \E w \in Workers : StartWorker(w)
  \/ \E w \in Workers : CheckStop(w)
  \/ \E w \in Workers : CheckTime(w)
  \/ \E w \in Workers : CheckLen(w)
  \/ \E w \in Workers : Generate(w)
  \/ \E w \in Workers : GeneratePanics(w)
  \/ \E w \in Workers : LockResults(w)
  \/ \E w \in Workers : Push(w)
  \/ \E w \in Workers : StoreStop(w)
  \/ \E w \in Workers : Unlock(w)
  \/ \E w \in Workers : Flush(w)
  \/ \E w \in Workers : ExitFlush(w)

Spec == Init /\ [][Next]_vars

\* the steps of main and of the coordinator
MainNext == Validate \/ SpawnWorkers \/ JoinNext \/ ReturnOk

\* the steps of worker w
WorkerNext(w) ==
  /\ w \in Workers
  /\ \/ StartWorker(w)
     \/ CheckStop(w)
     \/ CheckTime(w)
     \/ CheckLen(w)
     \/ Generate(w)
     \/ GeneratePanics(w)
     \/ LockResults(w)
     \/ Push(w)
     \/ StoreStop(w)
     \/ Unlock(w)
     \/ Flush(w)
     \/ ExitFlush(w)

\* most tasks any run spawns
MaxWorkers == IF MaxThreads > MaxCpus THEN MaxThreads ELSE MaxCpus

\* The runtime threads are OS threads and main is polled by block_on: main
\* keeps running, every task that has a thread keeps running, and an idle
\* thread picks up a queued task.  Nothing makes the clock advance.
FairSpec ==
  /\ Init /\ [][Next]_vars
  /\ WF_vars(MainNext)
  /\ \A w \in 1..MaxWorkers : WF_vars(WorkerNext(w))

(***************************************************************************)
(* Calls of the pure functions.  A call is drawn with its input, and the   *)
(* call's action applies the function once: call.out is what it returned.  *)
(* No search runs beside a call.                                           *)
(***************************************************************************)
\* characters of the patterns given to the validator
PatternChars == { "a", "0", "O", "I", "l", "!" }

\* all strings over a set of characters, up to a length
StringsUpTo(chars, n) == UNION { [1..k -> chars] : k \in 0..n }

PatternInputs == StringsUpTo(PatternChars, MaxPatLen)

search == << mainpc, config, now, results, lock, stop_flag, total_attempts, pc,
             local_attempts, start_time, cand, generated, overshoot, joined, ret >>

Pending(f) == call.fn = f /\ "out" \notin DOMAIN call
Returned(f) == call.fn = f /\ "out" \in DOMAIN call

NoSearch ==
  /\ mainpc = "none"
  /\ pattern = << >>
  /\ pattern_type = "StartsWith"
  /\ case_sensitive = TRUE
  /\ count = 0
  /\ num_cpus = 1
  /\ thread_count = 0
  /\ max_attempts = 1
  /\ max_time = 0
  /\ now = 0
  /\ results = << >>
  /\ lock = 0
  /\ stop_flag = FALSE
  /\ total_attempts = 0
  /\ pc = << >>
  /\ local_attempts = << >>
  /\ start_time = << >>
  /\ cand = << >>
  /\ generated = << >>
  /\ overshoot = << >>
  /\ joined = 0
  /\ ret = [results |-> << >>, total |-> 0]

\* validate_base58_pattern(&cli.pattern)
Call_validate_base58_pattern ==
  /\ Pending("validate_base58_pattern")
  /\ call' = [fn |-> call.fn, pattern |-> call.pattern,
              out |-> validate_base58_pattern(call.pattern)]
  /\ UNCHANGED search

\* characters of the candidates and patterns given to the match predicate
MatchChars == { "a", "A", "b" }

MatchInputs == StringsUpTo(MatchChars, MaxStrLen)

\* Self::matches_pattern_static(&public_key, &options.pattern, ...)
Call_matches_pattern_static ==
  /\ Pending("matches_pattern_static")
  /\ call' = [fn |-> call.fn, public_key |-> call.public_key,
              pattern |-> call.pattern, pattern_type |-> call.pattern_type,
              case_sensitive |-> call.case_sensitive,
              out |-> matches_pattern_static(call.public_key, call.pattern,
                                             call.pattern_type, call.case_sensitive)]
  /\ UNCHANGED search

(***************************************************************************)
(* The estimates.  The values run beyond the integers of the model         *)
(* checker: a natural number is a sequence of limbs in base 10000, least   *)
(* significant limb first, without a leading zero limb (0 is << >>).       *)
(*                                                                         *)
(* An f64 is modelled by the exact rational num/den it stands for, and 0.0 *)
(* by num = 0: the rounding of the f64 operations is left out (the code's  *)
(* expected attempts can come out one above the exact quotient, as for a   *)
(* two-character pattern: 3365), the overflow of powf to infinity and the  *)
(* saturation of the cast to u64 are kept.                                 *)
(***************************************************************************)
RECURSIVE Big(_)
Big(n) == IF n = 0 THEN << >> ELSE << n % 10000 >> \o Big(n \div 10000)

\* a * k + carry, for a natural a and small k, carry
RECURSIVE MulCarry(_, _, _)
MulCarry(a, k, carry) ==
  IF a = << >> THEN Big(carry)
  ELSE LET t == Head(a) * k + carry
       IN << t % 10000 >> \o MulCarry(Tail(a), k, t \div 10000)

BigMulSmall(a, k) == IF k = 0 THEN << >> ELSE MulCarry(a, k, 0)

RECURSIVE BigPow(_, _)
BigPow(b, e) == IF e = 0 THEN << 1 >> ELSE BigMulSmall(BigPow(b, e - 1), b)

BigLess(a, b) ==
  IF Len(a) # Len(b) THEN Len(a) < Len(b)
  ELSE \E i \in 1..Len(a) :
         a[i] < b[i] /\ \A j \in (i + 1)..Len(a) : a[j] = b[j]

\* quotient and remainder of a natural by a small k > 0
RECURSIVE DivRem(_, _)
DivRem(a, k) ==
  IF a = << >> THEN [q |-> << >>, r |-> 0]
  ELSE LET hi == DivRem(Tail(a), k)
           cur == hi.r * 10000 + Head(a)
       IN [q |-> IF cur \div k = 0 /\ hi.q = << >> THEN << >>
                 ELSE << cur \div k >> \o hi.q,
           r |-> cur % k]

\* f64::ceil of the quotient a / k
CeilDiv(a, k) ==
  LET d == DivRem(a, k) IN IF d.r = 0 THEN d.q ELSE MulCarry(d.q, 1, 1)

\* u64::MAX = 18446744073709551615
u64_MAX == << 1615, 955, 737, 6744, 1844 >>

\* `as u64` of a non-negative f64: the cast saturates
as_u64(x) == IF BigLess(u64_MAX, x) THEN u64_MAX ELSE x

\* let alphabet_size: f64 = 58.0;
alphabet_size == 58

\* alphabet_size.powf(n) is +infinity when 58^n is beyond f64::MAX:
\* 58^174 < 2^1024 < 58^175
powf_is_infinite(n) == n >= 175

f64_zero == [num |-> 0, den |-> << 1 >>]

\* p < q
f64_less(p, q) == BigLess(BigMulSmall(q.den, p.num), BigMulSmall(p.den, q.num))

\* case_variations.min(alphabet_size), for case_variations = 2.0.powf(n)
min_case_variations(n) ==
  LET case_variations == BigPow(2, n)
  IN IF BigLess(Big(alphabet_size), case_variations)
       THEN alphabet_size
       ELSE case_variations[1]

\* the case-insensitive estimate leaves the base probability out
estimate_probability_BaseDropped(pat, cs) ==
  LET pattern_length == Len(pat)
  IN IF ~ cs
       THEN [num |-> min_case_variations(pattern_length), den |-> Big(alphabet_size)]
       ELSE IF powf_is_infinite(pattern_length)
              THEN f64_zero
              ELSE [num |-> 1, den |-> BigPow(alphabet_size, pattern_length)]

\* estimate_probability (vanity.rs:222-237), of options.pattern and
\* options.case_sensitive
estimate_probability(pat, cs) ==
  LET pattern_length == Len(pat)
      base_probability ==
        IF powf_is_infinite(pattern_length)
          THEN f64_zero
          ELSE [num |-> 1, den |-> BigPow(alphabet_size, pattern_length)]
  IN IF ~ cs
       THEN IF base_probability.num = 0
              THEN f64_zero
              ELSE [num |-> base_probability.num * min_case_variations(pattern_length),
                    den |-> base_probability.den]
       ELSE base_probability

\* the estimate takes the case-sensitive probability under either policy
estimate_expected_attempts_CaseIgnored(pat, cs) ==
  LET probability == estimate_probability(pat, TRUE)
  IN IF probability.num > 0
       THEN as_u64(CeilDiv(probability.den, probability.num))
       ELSE u64_MAX

\* estimate_expected_attempts (vanity.rs:240-247)
estimate_expected_attempts(pat, cs) ==
  LET probability == estimate_probability(pat, cs)
  IN IF probability.num > 0
       THEN as_u64(CeilDiv(probability.den, probability.num))
       ELSE u64_MAX

\* a pattern of a given length (the estimates read only pattern.len())
PatternOfLen(n) == [i \in 1..n |-> "a"]

\* the pattern lengths of the estimates: the short ones, and one beyond the
\* range of powf
EstimateLens == (0..MaxEstLen) \cup { LongLen }

Call_estimate_probability ==
  /\ Pending("estimate_probability")
  /\ call' = [fn |-> call.fn, pattern |-> call.pattern,
              case_sensitive |-> call.case_sensitive,
              out |-> estimate_probability(call.pattern, call.case_sensitive)]
  /\ UNCHANGED search

Call_estimate_expected_attempts ==
  /\ Pending("estimate_expected_attempts")
  /\ call' = [fn |-> call.fn, pattern |-> call.pattern,
              case_sensitive |-> call.case_sensitive,
              out |-> estimate_expected_attempts(call.pattern, call.case_sensitive)]
  /\ UNCHANGED search

(***************************************************************************)
(* format_duration.  A Duration is its whole seconds and its nanoseconds;  *)
(* the formatted text is a string.                                         *)
(***************************************************************************)
Digits == << "0", "1", "2", "3", "4", "5", "6", "7", "8", "9" >>

\* Display of a u64 ("{}")
RECURSIVE to_string(_)
to_string(n) ==
  IF n < 10 THEN Digits[n + 1]
  ELSE to_string(n \div 10) \o Digits[(n % 10) + 1]

\* Duration::as_secs
as_secs(duration) == duration.secs

\* the one-minute boundary belongs to the seconds bucket
format_duration_LateMinute(duration) ==
  LET total_seconds == as_secs(duration)
  IN IF total_seconds < 1 THEN "< 1 second"
     ELSE IF total_seconds <= 60 THEN to_string(total_seconds) \o " seconds"
     ELSE IF total_seconds < 3600
       THEN LET minutes == total_seconds \div 60
                seconds == total_seconds % 60
            IN IF seconds = 0
                 THEN to_string(minutes) \o " minutes"
                 ELSE to_string(minutes) \o "m " \o to_string(seconds) \o "s"
     ELSE IF total_seconds < 86400
       THEN LET hours == total_seconds \div 3600
                minutes == (total_seconds % 3600) \div 60
            IN IF minutes = 0
                 THEN to_string(hours) \o " hours"
                 ELSE to_string(hours) \o "h " \o to_string(minutes) \o "m"
     ELSE LET days == total_seconds \div 86400
              hours == (total_seconds % 86400) \div 3600
          IN IF hours = 0
               THEN to_string(days) \o " days"
               ELSE to_string(days) \o "d " \o to_string(hours) \o "h"

\* format_duration (vanity.rs:262-294)
format_duration(duration) ==
  LET total_seconds == as_secs(duration)
  IN IF total_seconds < 1 THEN "< 1 second"
     ELSE IF total_seconds < 60 THEN to_string(total_seconds) \o " seconds"
     ELSE IF total_seconds < 3600
       THEN LET minutes == total_seconds \div 60
                seconds == total_seconds % 60
            IN IF seconds = 0
                 THEN to_string(minutes) \o " minutes"
                 ELSE to_string(minutes) \o "m " \o to_string(seconds) \o "s"
     ELSE IF total_seconds < 86400
       THEN LET hours == total_seconds \div 3600
                minutes == (total_seconds % 3600) \div 60
            IN IF minutes = 0
                 THEN to_string(hours) \o " hours"
                 ELSE to_string(hours) \o "h " \o to_string(minutes) \o "m"
     ELSE LET days == total_seconds \div 86400
              hours == (total_seconds % 86400) \div 3600
          IN IF hours = 0
               THEN to_string(days) \o " days"
               ELSE to_string(days) \o "d " \o to_string(hours) \o "h"

\* the whole seconds of the durations formatted: every second up to
\* MaxSecs, and the seconds around the hour and the day
DurationSecs ==
  (0..MaxSecs) \cup { 3599, 3600, 3601, 3660, 3661, 7200, 7260, 86399, 86400,
                      86401, 89999, 90000, 93600, 172800, 176400 }

\* sub-second parts of the durations formatted
DurationNanos == { 0, 999999999 }

Call_format_duration ==
  /\ Pending("format_duration")
  /\ call' = [fn |-> call.fn, duration |-> call.duration,
              out |-> format_duration(call.duration)]
  /\ UNCHANGED search

PureInit ==
  /\ NoSearch
  /\ \/ \E p \in PatternInputs :
          call = [fn |-> "validate_base58_pattern", pattern |-> p]
     \/ \E key \in MatchInputs, p \in MatchInputs, t \in PatternTypes, cs \in BOOLEAN :
          call = [fn |-> "matches_pattern_static", public_key |-> key,
                  pattern |-> p, pattern_type |-> t, case_sensitive |-> cs]
     \/ \E n \in EstimateLens, cs \in BOOLEAN :
          call = [fn |-> "estimate_probability", pattern |-> PatternOfLen(n),
                  case_sensitive |-> cs]
     \/ \E n \in EstimateLens, cs \in BOOLEAN :
          call = [fn |-> "estimate_expected_attempts", pattern |-> PatternOfLen(n),
                  case_sensitive |-> cs]
     \/ \E s \in DurationSecs, n \in DurationNanos :
          call = [fn |-> "format_duration", duration |-> [secs |-> s, nanos |-> n]]

PureNext ==
  \/ Call_validate_base58_pattern
  \/ Call_matches_pattern_static
  \/ Call_estimate_probability
  \/ Call_estimate_expected_attempts
  \/ Call_format_duration

PureSpec == PureInit /\ [][PureNext]_vars

(***************************************************************************)
(* Properties.                                                             *)
(***************************************************************************)
\* the search has been invoked (the shared state exists)
Invoked == mainpc \in { "joining", "ok", "err" }

RECURSIVE SumTo(_, _)
SumTo(f, n) == IF n = 0 THEN 0 ELSE f[n] + SumTo(f, n - 1)

\* keypairs generated by all workers together
TotalGenerated == SumTo(generated, thread_count)

\* C1: the shared result collection never holds more than the requested
\* count of results, and neither does the returned vector.
C1_ResultsBounded ==
  /\ Len(results) <= count
  /\ mainpc = "ok" => Len(ret.results) <= count

\* a worker holding a match has the lock and finds the collection full
C1_Witness ==
  \E w \in Workers : pc[w] = "push" /\ count >= 1 /\ Len(results) = count

\* C2 (as stated): for every count, 0 included, whenever nobody holds the
\* results lock and the collection holds count results, the stop flag is set.
C2_FullImpliesStop_AnyCount ==
  (Invoked /\ lock = 0 /\ Len(results) = count) => stop_flag

\* C2 (amended): for every count >= 1, whenever nobody holds the results lock
\* and the collection holds count results the stop flag is set; and a set
\* stop flag is never cleared.
C2_FullImpliesStop ==
  /\ [](( Invoked /\ count >= 1 /\ lock = 0 /\ Len(results) = count) => stop_flag)
  /\ [][stop_flag => stop_flag']_vars

\* the collection has been filled, the lock released and the flag is set
C2_Witness ==
  /\ mainpc = "joining"
  /\ count = 2
  /\ lock = 0
  /\ Len(results) = count
  /\ stop_flag

\* C3: on Ok the returned total equals the number of keypairs generated by
\* all workers together.
C3_TotalIsGenerated ==
  mainpc = "ok" => ret.total = TotalGenerated

\* two workers return, one after a batch flush and a partial batch
C3_Witness ==
  /\ mainpc = "ok"
  /\ thread_count = 2
  /\ generated[1] > BatchSize
  /\ generated[1] % BatchSize # 0
  /\ generated[2] >= 1

\* C4 (as stated): the attempts of a result about to be accepted is the number
\* of keypairs its worker has generated since it started.
C4_AttemptsSinceStart ==
  \A w \in Workers :
    (pc[w] = "push" /\ HasRoom) => cand[w].attempts = generated[w]

\* C5 (as stated): once max_time has elapsed since the search was invoked
\* (the clock is 0 at the invocation), no worker passes the time check of its
\* loop and goes on to another candidate.
C5_NoIterationAfterDeadline ==
  [][\A w \in Workers :
       (pc[w] = "checkTime" /\ pc'[w] = "checkLen") => now <= max_time]_vars

\* some key of the keypair source satisfies the request
Matchable ==
  \E key \in Keys : matches_pattern_static(key, pattern, pattern_type, case_sensitive)

\* no worker has run past its deadline and no worker has panicked
C6_Undisturbed ==
  \A w \in Workers :
    /\ pc[w] \notin { "idle", "queued" } => ~ DeadlinePassed(w)
    /\ pc[w] # "panicked"

\* the search returned Ok with exactly count results and a total of at least count
C6_Full ==
  /\ mainpc = "ok"
  /\ Len(ret.results) = count
  /\ ret.total >= Len(ret.results)
  /\ ret.total >= count

\* C6: with count >= 1, a pattern that passes validation and that keys can
\* match, fair scheduling, no deadline reached and no panic, the search
\* eventually returns Ok with exactly count results and a total of at least
\* count.
C6_EventuallyFull ==
  (count >= 1 /\ validate_base58_pattern(pattern).ok /\ Matchable /\ []C6_Undisturbed)
    => <>C6_Full

\* a search of two workers that asked for two results has returned them
C6_Witness ==
  /\ C6_Full
  /\ count = 2
  /\ thread_count = 2
  /\ generated[1] >= 1
  /\ generated[2] >= 1

\* C7: every result of the collection, and of the returned vector, satisfies
\* the match predicate of the request.
C7_ResultsMatch ==
  /\ \A i \in 1..Len(results) :
       matches_pattern_static(results[i].public_key, pattern, pattern_type,
                              case_sensitive)
  /\ mainpc = "ok" =>
       \A i \in 1..Len(ret.results) :
         matches_pattern_static(ret.results[i].public_key, pattern, pattern_type,
                                case_sensitive)

\* results are returned by workers that also drew keys that do not match
C7_Witness ==
  /\ mainpc = "ok"
  /\ Len(ret.results) >= 1
  /\ TotalGenerated > Len(ret.results) + thread_count

\* C8: an under-full search is a success: the coordinator fails only when a
\* worker panicked, it can go on once every worker has returned, and Ok
\* carries the collection and the total as accumulated.
C8_UnderfillIsOk ==
  /\ mainpc = "err" => \E w \in Workers : pc[w] = "panicked"
  /\ (mainpc = "joining" /\ \A w \in Workers : pc[w] = "done")
       => ENABLED (JoinNext \/ ReturnOk)
  /\ mainpc = "ok" => ret = [results |-> results, total |-> total_attempts]

\* every worker ran out of time and Ok carries fewer results than asked for
C8_Witness ==
  /\ mainpc = "ok"
  /\ ~ stop_flag
  /\ Len(ret.results) < count
  /\ Len(ret.results) >= 1
  /\ thread_count = 2

\* C9: the search never returns Ok when a worker task panicked.
C9_PanicIsNeverOk ==
  mainpc = "ok" => \A w \in Workers : pc[w] = "done"

\* the search failed although another worker had registered a result
C9_Witness ==
  /\ mainpc = "err"
  /\ Len(results) >= 1
  /\ \E w \in Workers : pc[w] = "panicked"

\* C10 (as stated): validation accepts a pattern exactly when every character
\* of it is in the base-58 alphabet.
C10_AcceptsExactlyBase58 ==
  mainpc # "validate" =>
    ((mainpc # "rejected") <=> \A i \in 1..Len(pattern) : pattern[i] \in Base58Set)

\* one of the four characters the validator looks for
Confusable(c) == c \in { "0", "O", "I", "l" }

\* C11: for a pattern with one or more of the characters 0, O, I, l,
\* validate_base58_pattern returns Err with every offending occurrence, in
\* pattern order, and nothing else; for a pattern with none it returns Ok.
C11_EveryOffenderReported ==
  Returned("validate_base58_pattern") =>
    LET offenders == SelectSeq(call.pattern, Confusable)
    IN IF offenders = << >>
         THEN call.out.ok
         ELSE ~ call.out.ok /\ call.out.err = offenders

\* a pattern with two offending characters around an innocent one was
\* validated
C11_Witness ==
  /\ Returned("validate_base58_pattern")
  /\ call.pattern = << "l", "a", "0" >>
  /\ call.out.err = << "l", "0" >>

\* C12: validation comes before the search: when the validation of the
\* pattern fails no worker is ever spawned and no keypair ever generated, and
\* workers are spawned only after the validation has succeeded.
C12_ValidationFirst ==
  /\ ~ validate_base58_pattern(pattern).ok =>
       /\ mainpc \in { "validate", "rejected" }
       /\ \A w \in Workers : pc[w] = "idle" /\ generated[w] = 0
  /\ (\E w \in Workers : pc[w] # "idle") =>
       /\ validate_base58_pattern(pattern).ok
       /\ mainpc \in { "joining", "ok", "err" }

\* a run was rejected by the validation
C12_Witness ==
  /\ mainpc = "rejected"
  /\ ~ validate_base58_pattern(pattern).ok
  /\ \A w \in Workers : pc[w] = "idle"

\* C13: no worker generates more keypairs than the per-worker attempt
\* ceiling max_attempts.
C13_AttemptCeiling == \A w \in Workers : generated[w] <= max_attempts

\* the characters of c from position k + 1 on are those of p
OccursAt(c, p, k) == \A i \in 1..Len(p) : c[k + i] = p[i]

\* C14: case-sensitively, StartsWith holds iff the first len(P) characters
\* of C are P, EndsWith iff the last len(P) characters of C are P, Contains
\* iff P occurs in C as a contiguous substring; the empty pattern matches
\* every candidate under every mode.
C14_CaseSensitiveModes ==
  (Returned("matches_pattern_static") /\ call.case_sensitive) =>
    LET C == call.public_key
        P == call.pattern
        fits == Len(P) <= Len(C)
    IN /\ call.pattern_type = "StartsWith" =>
            (call.out <=> (fits /\ OccursAt(C, P, 0)))
       /\ call.pattern_type = "EndsWith" =>
            (call.out <=> (fits /\ OccursAt(C, P, Len(C) - Len(P))))
       /\ call.pattern_type = "Contains" =>
            (call.out <=> \E k \in 0..(Len(C) - Len(P)) : OccursAt(C, P, k))
       /\ P = << >> => call.out

\* a suffix that is not a prefix was matched case-sensitively
C14_Witness ==
  /\ Returned("matches_pattern_static")
  /\ call.case_sensitive
  /\ call.pattern_type = "EndsWith"
  /\ call.public_key = << "a", "A", "b" >>
  /\ call.pattern = << "A", "b" >>
  /\ call.out

\* char::to_uppercase on the characters of the model (ASCII)
to_uppercase_char(c) ==
  IF \E i \in 1..26 : LowerLetters[i] = c
    THEN UpperLetters[CHOOSE i \in 1..26 : LowerLetters[i] = c]
    ELSE c

\* str::to_uppercase
to_uppercase(s) == [i \in 1..Len(s) |-> to_uppercase_char(s[i])]

\* C15: case-insensitive matching is unchanged by a case transformation of
\* the candidate or of the pattern: matches(C, P, mode, false) =
\* matches(lower(C), lower(P), mode, false) = matches(upper(C), P, mode, false).
C15_CaseInsensitiveSymmetry ==
  (Returned("matches_pattern_static") /\ ~ call.case_sensitive) =>
    LET C == call.public_key
        P == call.pattern
        mode == call.pattern_type
    IN /\ call.out = matches_pattern_static(to_lowercase(C), to_lowercase(P), mode, FALSE)
       /\ call.out = matches_pattern_static(to_uppercase(C), P, mode, FALSE)

\* a candidate and a pattern that differ in case only were matched
\* case-insensitively
C15_Witness ==
  /\ Returned("matches_pattern_static")
  /\ ~ call.case_sensitive
  /\ call.public_key = << "a", "A", "b" >>
  /\ call.pattern = << "A", "a" >>
  /\ call.pattern_type = "StartsWith"
  /\ call.out

\* C16: for a fixed case-sensitivity flag estimate_probability is strictly
\* decreasing in the pattern length L over the lengths 0..MaxEstLen: it is
\* 58^-L when case-sensitive and 58^-L * min(58, 2^L) when case-insensitive,
\* and p(L+1) < p(L), also across the length where 2^L first exceeds 58.
C16_StrictlyDecreasing ==
  (Returned("estimate_probability") /\ Len(call.pattern) <= MaxEstLen) =>
    LET L == Len(call.pattern)
        variations == IF call.case_sensitive THEN 1
                      ELSE IF 2^L < 58 THEN 2^L ELSE 58
    IN /\ BigMulSmall(BigPow(58, L), call.out.num)
            = BigMulSmall(call.out.den, variations)
       /\ L < MaxEstLen =>
            f64_less(estimate_probability(PatternOfLen(L + 1), call.case_sensitive),
                     call.out)

\* the case-insensitive estimate of the first length with 2^L > 58
C16_Witness ==
  /\ Returned("estimate_probability")
  /\ ~ call.case_sensitive
  /\ Len(call.pattern) = 6
  /\ call.out.num = 58
  /\ f64_less(call.out, estimate_probability(PatternOfLen(5), FALSE))

\* n is the ceiling of 1 / p, for p > 0: n * p >= 1 > (n - 1) * p
IsCeilOfInverse(n, p) ==
  /\ ~ BigLess(BigMulSmall(n, p.num), p.den)
  /\ BigLess(BigMulSmall(n, p.num), MulCarry(p.den, 1, p.num))

\* the parts of C17 that do not depend on the size of the quotient: u64::MAX
\* for probability 0, at least 1 for a non-empty pattern with nonzero
\* probability, 58 (below 1000) for one case-sensitive character
C17_Rest(p) ==
  /\ p.num = 0 => call.out = u64_MAX
  /\ (p.num > 0 /\ call.pattern # << >>) => ~ BigLess(call.out, Big(1))
  /\ (Len(call.pattern) = 1 /\ call.case_sensitive) =>
       call.out = Big(58) /\ BigLess(call.out, Big(1000))

C18_DurationBuckets ==
  Returned("format_duration") =>
    LET s == call.duration.secs
        out == call.out
    IN /\ s < 1 => out = "< 1 second"
       /\ (1 <= s /\ s < 60) => out = ToString(s) \o " seconds"
       /\ (60 <= s /\ s < 3600) =>
            out = IF s % 60 = 0
                    THEN ToString(s \div 60) \o " minutes"
                    ELSE ToString(s \div 60) \o "m " \o ToString(s % 60) \o "s"
       /\ (3600 <= s /\ s < 86400) =>
            out = IF (s % 3600) \div 60 = 0
                    THEN ToString(s \div 3600) \o " hours"
                    ELSE ToString(s \div 3600) \o "h "
                           \o ToString((s % 3600) \div 60) \o "m"
       /\ 86400 <= s =>
            out = IF (s % 86400) \div 3600 = 0
                    THEN ToString(s \div 86400) \o " days"
                    ELSE ToString(s \div 86400) \o "d "
                           \o ToString((s % 86400) \div 3600) \o "h"
       /\ s = 0 => out = "< 1 second"
       /\ s = 45 => out = "45 seconds"
       /\ s = 125 => out = "2m 5s"
       /\ s = 3600 => out = "1 hours"
       /\ s = 90000 => out = "1d 1h"

\* a duration of a day and an hour was formatted
C18_Witness ==
  /\ Returned("format_duration")
  /\ call.duration.secs = 90000
  /\ call.out = "1d 1h"

\* C19: the overshoot after the target is reached is bounded: once the
\* collection has reached the requested count each worker generates at most
\* one further keypair (the one whose iteration had passed the exit checks)
\* and does not enter another iteration; a worker that observes the stop
\* flag or a full collection at a loop check exits.
C19_BoundedOvershoot ==
  /\ [](\A w \in Workers :
          /\ overshoot[w] <= 1
          /\ overshoot[w] = 1 => pc[w] # "generate")
  /\ [][\A w \in Workers :
          /\ (pc[w] = "checkStop" /\ stop_flag /\ pc'[w] # pc[w]) => pc'[w] = "exit"
          /\ (pc[w] = "checkLen" /\ Len(results) >= count /\ pc'[w] # pc[w])
               => pc'[w] = "exit"]_vars

\* a worker generated one keypair with the collection already full, and
\* has returned
C19_Witness ==
  \E w \in Workers :
    /\ overshoot[w] = 1
    /\ pc[w] = "done"
    /\ stop_flag
    /\ Len(results) = count

\* nobody panicked
NoPanic == \A w \in Workers : pc[w] # "panicked"

\* attempts that the workers still running hold in local_attempts
Unflushed ==
  SumTo([w \in Workers |-> IF pc[w] = "done" THEN 0 ELSE local_attempts[w]],
        thread_count)

\* C20: when a worker holding a matching candidate has the results lock and
\* finds the collection at the requested count, the candidate is discarded:
\* the step leaves the collection and the stop flag unchanged, and the
\* attempt stays counted (in the worker's local_attempts, which the totals
\* account for).
C20_DiscardWhenFull ==
  [][\A w \in Workers :
       (pc[w] = "push" /\ lock = w /\ Len(results) >= count /\ pc'[w] # "push") =>
         /\ results' = results
         /\ stop_flag' = stop_flag
         /\ pc'[w] = "unlock"
         /\ local_attempts'[w] = local_attempts[w]
         /\ local_attempts[w] >= 1
         /\ NoPanic' => total_attempts' + Unflushed' = TotalGenerated']_vars

\* a worker holds the lock after the insertion guard, and its candidate is
\* not in the full collection
C20_Witness ==
  \E w \in Workers :
    /\ pc[w] = "unlock"
    /\ lock = w
    /\ count >= 1
    /\ Len(results) = count
    /\ \A i \in 1..Len(results) : results[i].attempts # local_attempts[w]

\* a spawned task that has never been polled and finds every thread of the
\* runtime held by a looping task
LockedOut(w) == pc[w] = "queued" /\ Cardinality(Running) >= num_cpus

\* C21: the worker loop has a periodic suspension point, so no worker
\* starves the others on an executor with fewer threads than workers: a
\* spawned worker is never kept from its first poll by workers that have
\* looped for more than a yield period.
C21_NoStarvation ==
  \A w \in Workers :
    LockedOut(w) => \A v \in Running : generated[v] <= YieldEvery

\* the parts of C22 on the shared counter and the batches: the shared counter
\* never decreases; a worker whose local counter is at a multiple of the
\* batch size adds exactly the batch size and resets the local counter, and
\* otherwise flushes nothing; at the top of its loop a worker's local counter
\* is below the batch size
C22_Batches ==
  /\ [][total_attempts' >= total_attempts]_vars
  /\ [][\A w \in Workers :
          (pc[w] = "flush" /\ pc'[w] # "flush") =>
            IF local_attempts[w] % BatchSize = 0
              THEN /\ local_attempts[w] = BatchSize
                   /\ total_attempts' = total_attempts + BatchSize
                   /\ local_attempts'[w] = 0
              ELSE /\ total_attempts' = total_attempts
                   /\ local_attempts'[w] = local_attempts[w]]_vars
  /\ [](\A w \in Workers : pc[w] = "checkStop" => local_attempts[w] < BatchSize)

C23_StopOnlyWhenFull ==
  /\ [](stop_flag => Len(results) = count)
  /\ [][stop_flag' # stop_flag =>
          /\ stop_flag'
          /\ results' = results
          /\ \E w \in Workers :
               /\ pc[w] = "storeStop"
               /\ lock = w
               /\ Len(results) = count]_vars
  /\ [][\A w \in Workers :
          (pc[w] # "storeStop" /\ pc'[w] = "storeStop") =>
            (lock = w /\ Len(results') = count /\ results' = Append(results, cand[w]))]_vars
  /\ [][results' # results =>
          \E w \in Workers :
            /\ pc[w] = "push"
            /\ lock = w
            /\ results' = Append(results, cand[w])
            /\ cand'[w] = NoResult]_vars

\* a worker has left on its deadline with the collection not full, and the
\* flag is not set
C23_Witness ==
  /\ count = 2
  /\ Len(results) = 1
  /\ ~ stop_flag
  /\ \E w \in Workers : pc[w] = "done" /\ now - start_time[w] > max_time

====
